---- MODULE Spec2Model ----
(***************************************************************************)
(* Mt3620DiningPhilosophers/main.c: five philosopher threads running       *)
(* PhilPhunction over a ring of five pthread mutexes (forks), the main     *)
(* thread that initialises the mutexes, creates the threads and then runs  *)
(* the reporting loop, and the SIGTERM handler that sets                   *)
(* terminationRequired.                                                    *)
(*                                                                         *)
(* A position (pc, mainPc) is named after the source line the thread is    *)
(* about to execute.  Each action is one access to shared state (a mutex   *)
(* operation, a read of terminationRequired) together with the statements  *)
(* on the thread's own data that follow it.                                *)
(***************************************************************************)
EXTENDS Integers, FiniteSets

\* main.c:126, 134: the number of forks and of philosophers.
NumPhilosophers == 5

\* main.c:61: "try twice before being forceful".
InitialTries == 2

\* Bound of Spec and PhilSpec: no philosopher leaves its think sleep
\* (main.c:55-56) any more once this many plates have been served at the
\* table (platesCounter is an unbounded int).
MaxPlates == 1

\* Bound of Spec and CycleSpec: a philosopher stays in its think sleep while
\* this many others are away from line 53.
MaxHungry == 3

\* Bound of CycleSpec, in the place of MaxPlates: with it a philosopher that
\* has eaten becomes hungry again.
MaxRounds == 2

\* A local, a field or a mutex that has not been assigned or initialised.
Unset == -1

Phils == 0 .. (NumPhilosophers - 1)
Forks == 0 .. (NumPhilosophers - 1)

\* The owner recorded in an unlocked mutex.
NoOwner == NumPhilosophers

\* main.c:137-138: the wiring of philosopher i to its two forks.
LeftOf(i) == i
RightOf(i) == (i + 1) % NumPhilosophers

VARIABLES
    terminationRequired,  \* main.c:21
    forks,                \* main.c:120: Unset, NoOwner or the locking thread
    mainPc,               \* position of main
    mainI,                \* main.c:123: the loop index i of main
    pc,                   \* position of each philosopher thread
    forkLeft,             \* main.c:51: local forkLeft of each thread
    forkRight,            \* main.c:51: local forkRight of each thread
    triesLeft,            \* main.c:49
    failed,               \* main.c:48
    swapped,              \* main.c:50
    platesCounter,        \* main.c:28
    isEating,             \* main.c:29
    gpio,                 \* main.c:27
    fail                  \* main.c:30

locals == <<forkLeft, forkRight, triesLeft, failed, swapped>>
record == <<platesCounter, isEating>>
mainVars == <<mainPc, mainI, gpio, fail>>
vars == <<terminationRequired, forks, mainPc, mainI, pc, forkLeft, forkRight,
          triesLeft, failed, swapped, platesCounter, isEating, gpio, fail>>

\* The process is alive until main returns (main.c:165) or calls exit(1)
\* (main.c:130, 145); either ends every thread of the process.
ProcessAlive == mainPc \notin {"returned", "exit130", "exit145"}

\* The forks philosopher i is past locking and before unlocking, from its
\* position: after line 65 the local forkLeft, after a successful line 67-68
\* both, after line 88 the local forkLeft again.
HeldBy(i) ==
    CASE pc[i] \in {"L67", "L72"} -> {forkLeft[i]}
      [] pc[i] = "L88" -> {forkLeft[i], forkRight[i]}
      [] pc[i] = "L89" -> {forkLeft[i]}
      [] OTHER -> {}

\* The mutexes whose recorded owner is thread i.
LockedBy(i) == {f \in Forks : forks[f] = i}

\* The plates served so far, over all philosophers.
RECURSIVE PlatesUpTo(_)
PlatesUpTo(i) ==
    IF i < 0 THEN 0
    ELSE (IF platesCounter[i] = Unset THEN 0 ELSE platesCounter[i])
         + PlatesUpTo(i - 1)
TotalPlates == PlatesUpTo(NumPhilosophers - 1)

\* The philosophers between "is hungry" (line 60) and the end of the eating
\* block (line 91).
Hungry == {i \in Phils : pc[i] \in {"L65", "L67", "L72", "L88", "L89", "L90"}}

----------------------------------------------------------------------------
\* pthread mutex operations on forks[f] by thread i.

\* pthread_mutex_lock / a successful pthread_mutex_trylock: possible on an
\* unlocked mutex only.
MutexFree(f) == forks[f] = NoOwner
MutexLock(f, i) == [forks EXCEPT ![f] = i]
MutexUnlock(f) == [forks EXCEPT ![f] = NoOwner]

----------------------------------------------------------------------------
\* The signal handler, main.c:36-40.
TerminationHandler ==
    /\ ProcessAlive
    /\ terminationRequired' = TRUE
    /\ UNCHANGED <<forks, pc, locals, record, mainVars>>

----------------------------------------------------------------------------
\* PhilPhunction, main.c:46-95.

\* Think with triesLeft = 3 at line 61.
ThinkThreeTries(i) ==
    /\ ProcessAlive
    /\ pc[i] = "L53"
    /\ ~terminationRequired
    /\ forkLeft' = [forkLeft EXCEPT ![i] = LeftOf(i)]
    /\ forkRight' = [forkRight EXCEPT ![i] = RightOf(i)]
    /\ triesLeft' = [triesLeft EXCEPT ![i] = InitialTries + 1]
    /\ pc' = [pc EXCEPT ![i] = "L65"]
    /\ UNCHANGED <<terminationRequired, forks, failed, swapped, record, mainVars>>

\* Think with lines 58-59 before the loop of line 53: the two locals are
\* fetched in the first cycle only and keep the order the last one left.
ThinkKeepsOrder(i) ==
    /\ ProcessAlive
    /\ pc[i] = "L53"
    /\ ~terminationRequired
    /\ forkLeft' = [forkLeft EXCEPT ![i] =
                        IF forkLeft[i] = Unset THEN LeftOf(i) ELSE forkLeft[i]]
    /\ forkRight' = [forkRight EXCEPT ![i] =
                        IF forkRight[i] = Unset THEN RightOf(i) ELSE forkRight[i]]
    /\ triesLeft' = [triesLeft EXCEPT ![i] = InitialTries]
    /\ pc' = [pc EXCEPT ![i] = "L65"]
    /\ UNCHANGED <<terminationRequired, forks, failed, swapped, record, mainVars>>

\* main.c:53 read as false, then 54-61: think, fetch the two forks, become
\* hungry with triesLeft = 2.
Think(i) ==
    /\ ProcessAlive
    /\ pc[i] = "L53"
    /\ ~terminationRequired
    /\ forkLeft' = [forkLeft EXCEPT ![i] = LeftOf(i)]
    /\ forkRight' = [forkRight EXCEPT ![i] = RightOf(i)]
    /\ triesLeft' = [triesLeft EXCEPT ![i] = InitialTries]
    /\ pc' = [pc EXCEPT ![i] = "L65"]
    /\ UNCHANGED <<terminationRequired, forks, failed, swapped, record, mainVars>>

\* main.c:53 read as true, then 94: return NULL.  The thread's locals end
\* with it.
Return(i) ==
    /\ ProcessAlive
    /\ pc[i] = "L53"
    /\ terminationRequired
    /\ pc' = [pc EXCEPT ![i] = "done"]
    /\ forkLeft' = [forkLeft EXCEPT ![i] = Unset]
    /\ forkRight' = [forkRight EXCEPT ![i] = Unset]
    /\ triesLeft' = [triesLeft EXCEPT ![i] = Unset]
    /\ failed' = [failed EXCEPT ![i] = Unset]
    /\ swapped' = [swapped EXCEPT ![i] = Unset]
    /\ UNCHANGED <<terminationRequired, forks, record, mainVars>>

\* LockPrimary taking the fork without waiting for it to be unlocked.
LockPrimaryNoWait(i) ==
    /\ ProcessAlive
    /\ pc[i] = "L65"
    /\ forks' = MutexLock(forkLeft[i], i)
    /\ failed' = [failed EXCEPT ![i] = 0]
    /\ pc' = [pc EXCEPT ![i] = "L67"]
    /\ UNCHANGED <<terminationRequired, forkLeft, forkRight, triesLeft, swapped,
                   record, mainVars>>

\* main.c:65: blocking pthread_mutex_lock(forkLeft).
LockPrimary(i) ==
    /\ ProcessAlive
    /\ pc[i] = "L65"
    /\ MutexFree(forkLeft[i])
    /\ forks' = MutexLock(forkLeft[i], i)
    /\ failed' = [failed EXCEPT ![i] = 0]
    /\ pc' = [pc EXCEPT ![i] = "L67"]
    /\ UNCHANGED <<terminationRequired, forkLeft, forkRight, triesLeft, swapped,
                   record, mainVars>>

\* TryLockSecondary with the result of pthread_mutex_trylock ignored: the
\* philosopher goes on to eat whether or not it got the fork.
TryLockSecondaryUnchecked(i) ==
    /\ ProcessAlive
    /\ pc[i] = "L67"
    /\ triesLeft[i] > 0
    /\ forks' = IF MutexFree(forkRight[i]) THEN MutexLock(forkRight[i], i) ELSE forks
    /\ failed' = [failed EXCEPT ![i] = 0]
    /\ isEating' = [isEating EXCEPT ![i] = 1]
    /\ platesCounter' = [platesCounter EXCEPT ![i] = platesCounter[i] + 1]
    /\ pc' = [pc EXCEPT ![i] = "L88"]
    /\ UNCHANGED <<terminationRequired, forkLeft, forkRight, triesLeft, swapped,
                   mainVars>>

\* TryLockSecondary with pthread_mutex_lock in the place of
\* pthread_mutex_trylock: the philosopher waits for the second fork.
TryLockSecondaryBlocking(i) ==
    /\ ProcessAlive
    /\ pc[i] = "L67"
    /\ triesLeft[i] > 0
    /\ MutexFree(forkRight[i])
    /\ forks' = MutexLock(forkRight[i], i)
    /\ failed' = [failed EXCEPT ![i] = 0]
    /\ isEating' = [isEating EXCEPT ![i] = 1]
    /\ platesCounter' = [platesCounter EXCEPT ![i] = platesCounter[i] + 1]
    /\ pc' = [pc EXCEPT ![i] = "L88"]
    /\ UNCHANGED <<terminationRequired, forkLeft, forkRight, triesLeft, swapped,
                   mainVars>>

\* TryLockSecondary with platesCounter++ before the test of line 81: a
\* failed probe is counted as a plate.
TryLockSecondaryCountsProbe(i) ==
    /\ ProcessAlive
    /\ pc[i] = "L67"
    /\ triesLeft[i] > 0
    /\ platesCounter' = [platesCounter EXCEPT ![i] = platesCounter[i] + 1]
    /\ IF MutexFree(forkRight[i])
       THEN /\ forks' = MutexLock(forkRight[i], i)
            /\ failed' = [failed EXCEPT ![i] = 0]
            /\ isEating' = [isEating EXCEPT ![i] = 1]
            /\ pc' = [pc EXCEPT ![i] = "L88"]
       ELSE /\ forks' = forks
            /\ failed' = [failed EXCEPT ![i] = 1]
            /\ UNCHANGED isEating
            /\ pc' = [pc EXCEPT ![i] = "L72"]
    /\ UNCHANGED <<terminationRequired, forkLeft, forkRight, triesLeft, swapped,
                   mainVars>>

\* main.c:67 with triesLeft > 0: pthread_mutex_trylock(forkRight), which
\* returns EBUSY on a locked mutex (line 70 then leads to line 72), and locks
\* an unlocked one and returns 0.  Then failed is 0, the loop ends at line 79
\* without reading terminationRequired, and lines 81-87 follow: isEating = 1,
\* platesCounter++, indicator on, the eating sleep.
TryLockSecondary(i) ==
    /\ ProcessAlive
    /\ pc[i] = "L67"
    /\ triesLeft[i] > 0
    /\ IF MutexFree(forkRight[i])
       THEN /\ forks' = MutexLock(forkRight[i], i)
            /\ failed' = [failed EXCEPT ![i] = 0]
            /\ isEating' = [isEating EXCEPT ![i] = 1]
            /\ platesCounter' = [platesCounter EXCEPT ![i] = platesCounter[i] + 1]
            /\ pc' = [pc EXCEPT ![i] = "L88"]
       ELSE /\ forks' = forks
            /\ failed' = [failed EXCEPT ![i] = 1]
            /\ UNCHANGED record
            /\ pc' = [pc EXCEPT ![i] = "L72"]
    /\ UNCHANGED <<terminationRequired, forkLeft, forkRight, triesLeft, swapped,
                   mainVars>>

\* main.c:68 with triesLeft <= 0: blocking pthread_mutex_lock(forkRight),
\* then lines 70, 79 and 81-87 as after a successful probe.
LockSecondary(i) ==
    /\ ProcessAlive
    /\ pc[i] = "L67"
    /\ ~(triesLeft[i] > 0)
    /\ MutexFree(forkRight[i])
    /\ forks' = MutexLock(forkRight[i], i)
    /\ failed' = [failed EXCEPT ![i] = 0]
    /\ isEating' = [isEating EXCEPT ![i] = 1]
    /\ platesCounter' = [platesCounter EXCEPT ![i] = platesCounter[i] + 1]
    /\ pc' = [pc EXCEPT ![i] = "L88"]
    /\ UNCHANGED <<terminationRequired, forkLeft, forkRight, triesLeft, swapped,
                   mainVars>>

\* SwitchOrder without the decrement of line 76.
SwitchOrderNoDecrement(i) ==
    /\ ProcessAlive
    /\ pc[i] = "L72"
    /\ forks' = MutexUnlock(forkLeft[i])
    /\ forkLeft' = [forkLeft EXCEPT ![i] = forkRight[i]]
    /\ forkRight' = [forkRight EXCEPT ![i] = forkLeft[i]]
    /\ swapped' = [swapped EXCEPT ![i] = IF swapped[i] = 0 THEN 1 ELSE 0]
    /\ pc' = [pc EXCEPT ![i] = IF failed[i] # 0 /\ ~terminationRequired
                               THEN "L65" ELSE "L53"]
    /\ UNCHANGED <<terminationRequired, triesLeft, failed, record, mainVars>>

\* SwitchOrder without the unlock of line 72.
SwitchOrderNoUnlock(i) ==
    /\ ProcessAlive
    /\ pc[i] = "L72"
    /\ forkLeft' = [forkLeft EXCEPT ![i] = forkRight[i]]
    /\ forkRight' = [forkRight EXCEPT ![i] = forkLeft[i]]
    /\ triesLeft' = [triesLeft EXCEPT ![i] = triesLeft[i] - 1]
    /\ swapped' = [swapped EXCEPT ![i] = IF swapped[i] = 0 THEN 1 ELSE 0]
    /\ pc' = [pc EXCEPT ![i] = IF failed[i] # 0 /\ ~terminationRequired
                               THEN "L65" ELSE "L53"]
    /\ UNCHANGED <<terminationRequired, forks, failed, record, mainVars>>

\* SwitchOrder with the unlock of line 72 after the exchange of lines 73-75:
\* it unlocks the fork whose probe failed.
SwitchOrderUnlockAfterSwap(i) ==
    /\ ProcessAlive
    /\ pc[i] = "L72"
    /\ forks' = MutexUnlock(forkRight[i])
    /\ forkLeft' = [forkLeft EXCEPT ![i] = forkRight[i]]
    /\ forkRight' = [forkRight EXCEPT ![i] = forkLeft[i]]
    /\ triesLeft' = [triesLeft EXCEPT ![i] = triesLeft[i] - 1]
    /\ swapped' = [swapped EXCEPT ![i] = IF swapped[i] = 0 THEN 1 ELSE 0]
    /\ pc' = [pc EXCEPT ![i] = IF failed[i] # 0 /\ ~terminationRequired
                               THEN "L65" ELSE "L53"]
    /\ UNCHANGED <<terminationRequired, failed, record, mainVars>>

\* SwitchOrder with the test of terminationRequired at line 79 inverted: the
\* retry loop is left when it is not set.
SwitchOrderLeavesLoop(i) ==
    /\ ProcessAlive
    /\ pc[i] = "L72"
    /\ forks' = MutexUnlock(forkLeft[i])
    /\ forkLeft' = [forkLeft EXCEPT ![i] = forkRight[i]]
    /\ forkRight' = [forkRight EXCEPT ![i] = forkLeft[i]]
    /\ triesLeft' = [triesLeft EXCEPT ![i] = triesLeft[i] - 1]
    /\ swapped' = [swapped EXCEPT ![i] = IF swapped[i] = 0 THEN 1 ELSE 0]
    /\ pc' = [pc EXCEPT ![i] = IF failed[i] # 0 /\ terminationRequired
                               THEN "L65" ELSE "L53"]
    /\ UNCHANGED <<terminationRequired, failed, record, mainVars>>

\* main.c:72-79 after a failed probe: unlock forkLeft, exchange the two
\* locals, decrement triesLeft, toggle swapped; then the loop condition of
\* line 79, where failed is nonzero and terminationRequired is read: the
\* loop repeats from line 65 when it is false, and otherwise is left, line
\* 81 skips the eating block and control is back at line 53.
\* (terminationRequired is read at the end of the step: no other thread's
\* step depends on where this thread is between the unlock and the read.)
SwitchOrder(i) ==
    /\ ProcessAlive
    /\ pc[i] = "L72"
    /\ forks' = MutexUnlock(forkLeft[i])
    /\ forkLeft' = [forkLeft EXCEPT ![i] = forkRight[i]]
    /\ forkRight' = [forkRight EXCEPT ![i] = forkLeft[i]]
    /\ triesLeft' = [triesLeft EXCEPT ![i] = triesLeft[i] - 1]
    /\ swapped' = [swapped EXCEPT ![i] = IF swapped[i] = 0 THEN 1 ELSE 0]
    /\ pc' = [pc EXCEPT ![i] = IF failed[i] # 0 /\ ~terminationRequired
                               THEN "L65" ELSE "L53"]
    /\ UNCHANGED <<terminationRequired, failed, record, mainVars>>

\* main.c:88: pthread_mutex_unlock(forkRight).
PutRight(i) ==
    /\ ProcessAlive
    /\ pc[i] = "L88"
    /\ forks' = MutexUnlock(forkRight[i])
    /\ pc' = [pc EXCEPT ![i] = "L89"]
    /\ UNCHANGED <<terminationRequired, locals, record, mainVars>>

\* main.c:89: pthread_mutex_unlock(forkLeft).
PutLeft(i) ==
    /\ ProcessAlive
    /\ pc[i] = "L89"
    /\ forks' = MutexUnlock(forkLeft[i])
    /\ pc' = [pc EXCEPT ![i] = "L90"]
    /\ UNCHANGED <<terminationRequired, locals, record, mainVars>>

\* main.c:90-91: isEating = 0, indicator off; back to line 53.
StopEating(i) ==
    /\ ProcessAlive
    /\ pc[i] = "L90"
    /\ isEating' = [isEating EXCEPT ![i] = 0]
    /\ pc' = [pc EXCEPT ![i] = "L53"]
    /\ UNCHANGED <<terminationRequired, forks, locals, platesCounter, mainVars>>

\* Every step of PhilPhunction after the thinking sleep.
Acquire(i) ==
    \/ Return(i)
    \/ LockPrimary(i)
    \/ TryLockSecondary(i)
    \/ LockSecondary(i)
    \/ SwitchOrder(i)
    \/ PutRight(i)
    \/ PutLeft(i)
    \/ StopEating(i)

PhilStep(i) == Think(i) \/ Acquire(i)

----------------------------------------------------------------------------
\* main, main.c:100-166.

\* main.c:127 succeeding: forks[i] is initialised, unlocked; after the last
\* one the second loop starts at i = 0.
InitMutex ==
    /\ mainPc = "L127"
    /\ forks' = [forks EXCEPT ![mainI] = NoOwner]
    /\ IF mainI + 1 < NumPhilosophers
       THEN mainI' = mainI + 1 /\ mainPc' = mainPc
       ELSE mainI' = 0 /\ mainPc' = "L135"
    /\ UNCHANGED <<terminationRequired, pc, locals, record, gpio, fail>>

\* main.c:127-130: pthread_mutex_init fails, exit(1).
InitMutexFails ==
    /\ mainPc = "L127"
    /\ mainPc' = "exit130"
    /\ UNCHANGED <<terminationRequired, forks, mainI, pc, locals, record, gpio, fail>>

\* main.c:135-141 with pthread_create succeeding: the record is filled in
\* and the thread exists, at the top of PhilPhunction with swapped = 0.
CreateThread ==
    /\ mainPc = "L135"
    /\ platesCounter' = [platesCounter EXCEPT ![mainI] = 0]
    /\ isEating' = [isEating EXCEPT ![mainI] = 0]
    /\ fail' = [fail EXCEPT ![mainI] = 0]
    /\ pc' = [pc EXCEPT ![mainI] = "L53"]
    /\ swapped' = [swapped EXCEPT ![mainI] = 0]
    /\ mainPc' = "L142"
    /\ UNCHANGED <<terminationRequired, forks, mainI, forkLeft, forkRight,
                   triesLeft, failed, gpio>>

\* CreateThreadFails with the thread running although pthread_create
\* reported an error.
CreateThreadFailsStarted ==
    /\ mainPc = "L135"
    /\ platesCounter' = [platesCounter EXCEPT ![mainI] = 0]
    /\ isEating' = [isEating EXCEPT ![mainI] = 0]
    /\ fail' = [fail EXCEPT ![mainI] = 1]
    /\ pc' = [pc EXCEPT ![mainI] = "L53"]
    /\ swapped' = [swapped EXCEPT ![mainI] = 0]
    /\ mainPc' = "L142"
    /\ UNCHANGED <<terminationRequired, forks, mainI, forkLeft, forkRight,
                   triesLeft, failed, gpio>>

\* main.c:135-141 with pthread_create failing: no thread, fail is nonzero.
CreateThreadFails ==
    /\ mainPc = "L135"
    /\ platesCounter' = [platesCounter EXCEPT ![mainI] = 0]
    /\ isEating' = [isEating EXCEPT ![mainI] = 0]
    /\ fail' = [fail EXCEPT ![mainI] = 1]
    /\ mainPc' = "L142"
    /\ UNCHANGED <<terminationRequired, forks, mainI, pc, locals, gpio>>

\* main.c:142-146: the gpio field is assigned after pthread_create; then
\* exit(1) if the creation failed, else the next philosopher, and after the
\* last one the reporting loop.
AssignGpio ==
    /\ mainPc = "L142"
    /\ gpio' = [gpio EXCEPT ![mainI] = mainI]
    /\ IF fail[mainI] # 0
       THEN mainPc' = "exit145" /\ mainI' = mainI
       ELSE IF mainI + 1 < NumPhilosophers
            THEN mainPc' = "L135" /\ mainI' = mainI + 1
            ELSE mainPc' = "L151" /\ mainI' = mainI + 1
    /\ UNCHANGED <<terminationRequired, forks, pc, locals, record, fail>>

\* main.c:151: the loop condition; 164-165 when terminationRequired is set.
MonitorCheck ==
    /\ mainPc = "L151"
    /\ mainPc' = IF terminationRequired THEN "returned" ELSE "L152"
    /\ UNCHANGED <<terminationRequired, forks, mainI, pc, locals, record, gpio, fail>>

\* Report clearing every isEating after it has logged it.
ReportClearsStatus ==
    /\ mainPc = "L152"
    /\ mainPc' = "L151"
    /\ isEating' = [i \in Phils |-> IF isEating[i] = Unset THEN Unset ELSE 0]
    /\ UNCHANGED <<terminationRequired, forks, mainI, pc, locals, platesCounter,
                   gpio, fail>>

\* main.c:152-161: log every isEating and platesCounter, sleep one second.
Report ==
    /\ mainPc = "L152"
    /\ mainPc' = "L151"
    /\ UNCHANGED <<terminationRequired, forks, mainI, pc, locals, record, gpio, fail>>

MainStep ==
    \/ InitMutex
    \/ InitMutexFails
    \/ CreateThread
    \/ CreateThreadFails
    \/ AssignGpio
    \/ MonitorCheck
    \/ Report

----------------------------------------------------------------------------
\* The program at the start of main's first loop (main.c:126): signal
\* handler registered, nothing initialised, no thread.
Init ==
    /\ terminationRequired = FALSE
    /\ forks = [f \in Forks |-> Unset]
    /\ mainPc = "L127"
    /\ mainI = 0
    /\ pc = [i \in Phils |-> "new"]
    /\ forkLeft = [i \in Phils |-> Unset]
    /\ forkRight = [i \in Phils |-> Unset]
    /\ triesLeft = [i \in Phils |-> Unset]
    /\ failed = [i \in Phils |-> Unset]
    /\ swapped = [i \in Phils |-> Unset]
    /\ platesCounter = [i \in Phils |-> Unset]
    /\ isEating = [i \in Phils |-> Unset]
    /\ gpio = [i \in Phils |-> Unset]
    /\ fail = [i \in Phils |-> Unset]

\* The whole program; a philosopher sleeps on while MaxHungry others are
\* hungry or eating, and once MaxPlates plates have been served.
Next ==
    \/ MainStep
    \/ TerminationHandler
    \/ \E i \in Phils :
          \/ Cardinality(Hungry) < MaxHungry /\ TotalPlates < MaxPlates /\ Think(i)
          \/ Acquire(i)

Spec == Init /\ [][Next]_vars

\* The state once main has initialised the mutexes and created the five
\* threads (main.c:126-147 without a failure) and no thread has run yet:
\* main is at the top of its reporting loop.
InitRunning ==
    /\ terminationRequired = FALSE
    /\ forks = [f \in Forks |-> NoOwner]
    /\ mainPc = "L151"
    /\ mainI = NumPhilosophers
    /\ pc = [i \in Phils |-> "L53"]
    /\ forkLeft = [i \in Phils |-> Unset]
    /\ forkRight = [i \in Phils |-> Unset]
    /\ triesLeft = [i \in Phils |-> Unset]
    /\ failed = [i \in Phils |-> Unset]
    /\ swapped = [i \in Phils |-> 0]
    /\ platesCounter = [i \in Phils |-> 0]
    /\ isEating = [i \in Phils |-> 0]
    /\ gpio = [i \in Phils |-> i]
    /\ fail = [i \in Phils |-> 0]

\* The five philosopher threads and the signal handler, all five free to be
\* hungry at once, while main stays in its reporting loop; a philosopher
\* sleeps on once MaxPlates plates have been served.
NextPhil ==
    \/ TerminationHandler
    \/ \E i \in Phils : (TotalPlates < MaxPlates /\ Think(i)) \/ Acquire(i)

PhilSpec == InitRunning /\ [][NextPhil]_vars

\* The same threads over several cycles each: a philosopher sleeps on while
\* MaxHungry others are hungry or eating, and once MaxRounds plates have been
\* served.
NextCycle ==
    \/ TerminationHandler
    \/ \E i \in Phils :
          \/ Cardinality(Hungry) < MaxHungry /\ TotalPlates < MaxRounds /\ Think(i)
          \/ Acquire(i)

CycleSpec == InitRunning /\ [][NextCycle]_vars

----------------------------------------------------------------------------
\* Properties.

\* Philosopher i is blocked in the blocking pthread_mutex_lock of line 68,
\* holding exactly one fork, on a fork that another philosopher holds.
BlockedOnNeighbour(i) ==
    /\ pc[i] = "L67"
    /\ ~(triesLeft[i] > 0)
    /\ Cardinality(LockedBy(i)) = 1
    /\ forks[forkRight[i]] \in Phils \ {i}

\* Every philosopher thread has returned from PhilPhunction.
AllReturned == \A i \in Phils : pc[i] = "done"

\* Some philosopher thread can take a step.
SomePhilosopherCanStep == \E i \in Phils : ENABLED PhilStep(i)

\* C1: deadlock-freedom: no reachable state has every philosopher holding
\* exactly one fork while blocked in a blocking pthread_mutex_lock on the
\* fork its neighbour holds.
DeadlockFreedom == ~(\A i \in Phils : BlockedOnNeighbour(i))

\* C2: mutual exclusion: no fork is held by two philosophers, i.e. no two
\* philosophers are both between a successful lock/trylock and the matching
\* unlock of the same fork.
MutualExclusion ==
    \A i, j \in Phils : i # j => HeldBy(i) \cap HeldBy(j) = {}

\* A fork is held by one philosopher while its other user is at the blocking
\* lock of line 65 for that same fork.
ContendedFork ==
    \E i, j \in Phils :
        /\ i # j
        /\ pc[j] = "L65"
        /\ forkLeft[j] \in HeldBy(i)

\* C3: neighbours never eat simultaneously: no two adjacent philosophers
\* have isEating = 1 at the same time.
NeighboursNeverBothEating ==
    \A i \in Phils : ~(isEating[i] = 1 /\ isEating[RightOf(i)] = 1)

\* C4: cancellation terminates every actor.  Under fair scheduling every
\* philosopher returns once terminationRequired is set only if, in every
\* state where it is set, all have returned or some philosopher can still
\* take a step.
CancellationTerminates ==
    terminationRequired => (AllReturned \/ SomePhilosopherCanStep)

\* C5: shutdown joins the actors: main has not returned while a philosopher
\* thread is still running or a fork is still locked.
ShutdownJoinsActors ==
    mainPc = "returned" =>
        /\ \A i \in Phils : pc[i] = "done"
        /\ \A f \in Forks : forks[f] = NoOwner

\* C6: bounded retries: during an acquisition triesLeft stays within 0..2; a
\* probe fails only with triesLeft in 1..2 and the step after it decrements
\* triesLeft by exactly 1 (so an acquisition makes at most 2 probes); with
\* triesLeft = 0 the next step of the philosopher is the blocking lock that
\* gives it the second fork, never a probe or a swap.
BoundedRetries ==
    [][\A i \in Phils :
        /\ pc[i] \in {"L65", "L67", "L72"} => triesLeft[i] \in 0 .. InitialTries
        /\ pc[i] = "L53" /\ pc'[i] = "L65" => triesLeft'[i] = InitialTries
        /\ pc[i] = "L67" /\ pc'[i] = "L72" => triesLeft[i] \in 1 .. InitialTries
        /\ pc[i] = "L72" /\ pc'[i] # "L72" =>
              /\ triesLeft'[i] = triesLeft[i] - 1
              /\ triesLeft'[i] >= 0
        /\ pc[i] = "L67" /\ triesLeft[i] = 0 /\ pc'[i] # "L67" =>
              /\ pc'[i] = "L88"
              /\ forks[forkRight[i]] = NoOwner
              /\ forks'[forkRight[i]] = i
      ]_vars

\* A philosopher is in the blocking fallback: two probes of this acquisition
\* have failed and it holds its first fork again.
InFallback == \E i \in Phils : pc[i] = "L67" /\ triesLeft[i] = 0

\* C7: eventual progress per actor.  With terminationRequired never set,
\* every hungry philosopher eventually eats under fair scheduling only if,
\* in every state where it is not set and some philosopher is hungry, some
\* philosopher can still take a step.
HungryEventuallyEats ==
    (~terminationRequired /\ Hungry # {}) => SomePhilosopherCanStep

AtMostTwoEating ==
    Cardinality({i \in Phils : Cardinality(HeldBy(i)) = 2})
        <= NumPhilosophers \div 2

\* Two philosophers hold both of their forks.
TwoEating == Cardinality({i \in Phils : Cardinality(LockedBy(i)) = 2}) = 2

\* C10: cancellation is never observed mid-hold: a philosopher at the read
\* of terminationRequired of line 53 holds no fork, it holds none when the
\* step of lines 72-79 reads it, and a thread returns only from line 53,
\* with terminationRequired set and no fork locked by it.
NoReadWhileHolding ==
    [][\A i \in Phils :
        /\ pc[i] = "L53" => LockedBy(i) = {}
        /\ pc[i] = "L72" /\ pc'[i] # "L72" => LockedBy(i)' = {}
        /\ pc'[i] = "done" =>
              /\ pc[i] \in {"L53", "done"}
              /\ terminationRequired'
              /\ LockedBy(i)' = {}
      ]_vars

\* A philosopher has just left the retry loop on reading terminationRequired
\* at line 79 (failed is still nonzero) and is about to read it again at
\* line 53, while another one is eating.
LeftRetryLoop ==
    \E i, j \in Phils :
        /\ pc[i] = "L53" /\ failed[i] = 1 /\ terminationRequired
        /\ pc[j] = "L88"

\* The positions of a hungry philosopher that has not yet got both forks.
Acquiring == {"L65", "L67", "L72"}

\* C11: the top of the full cycle is the only exit point: a philosopher
\* that has begun an acquisition leaves it only by getting both forks and
\* eating, never back to line 53 without having eaten.
HungryFinishesAcquisition ==
    [][\A i \in Phils :
        pc[i] \in Acquiring => pc'[i] \in Acquiring \cup {"L88"}
      ]_vars

\* C11 as amended: a thread returns only from the test of line 53 with
\* terminationRequired set; a hungry philosopher leaves the acquisition
\* without eating only in the step of lines 72-79 after a failed probe, with
\* terminationRequired set, back to line 53, holding no fork and with its
\* platesCounter unchanged; with terminationRequired not set that step
\* retries from line 65; and a philosopher that has got both forks releases
\* both before it is at line 53 again.
ExitOnlyAfterFailedProbe ==
    [][\A i \in Phils :
        /\ pc[i] # "done" /\ pc'[i] = "done" =>
              pc[i] = "L53" /\ terminationRequired
        /\ pc[i] \in Acquiring /\ pc'[i] \notin Acquiring \cup {"L88"} =>
              /\ pc[i] = "L72" /\ pc'[i] = "L53"
              /\ terminationRequired
              /\ LockedBy(i)' = {}
              /\ platesCounter'[i] = platesCounter[i]
        /\ pc[i] = "L72" /\ pc'[i] # "L72" /\ ~terminationRequired =>
              pc'[i] = "L65"
        /\ pc[i] \in {"L88", "L89", "L90"} =>
              /\ pc'[i] \in {"L88", "L89", "L90", "L53"}
              /\ pc'[i] = "L53" => LockedBy(i)' = {}
      ]_vars

\* A philosopher that was hungry is back at line 53 after a failed probe,
\* with terminationRequired set and without ever having eaten.
HungryLeftWithoutEating ==
    \E i \in Phils :
        /\ pc[i] = "L53" /\ failed[i] = 1 /\ platesCounter[i] = 0
        /\ terminationRequired

\* C12: release only by the holder: a philosopher about to unlock forkLeft
\* at line 72 or line 89, or forkRight and then forkLeft at lines 88-89, is
\* the owner of the mutex it unlocks, and every step that unlocks a mutex is
\* a step of the philosopher that owned it.
ReleaseOnlyByHolder ==
    [][/\ \A i \in Phils :
            /\ pc[i] \in {"L72", "L88", "L89"} => forks[forkLeft[i]] = i
            /\ pc[i] = "L88" => forks[forkRight[i]] = i
       /\ \A f \in Forks :
            forks'[f] = NoOwner /\ forks[f] # NoOwner =>
                /\ forks[f] \in Phils
                /\ pc'[forks[f]] # pc[forks[f]]
      ]_vars

\* A philosopher whose probe failed is about to unlock its first fork, here
\* its own right fork, with terminationRequired already set: the retry loop
\* will be left after this release.
ReleaseOnCancellation ==
    \E i \in Phils :
        /\ pc[i] = "L72" /\ terminationRequired
        /\ forkLeft[i] = RightOf(i) /\ forks[RightOf(i)] = i

\* Philosopher i is blocked: it has a thread that has not returned and none
\* of its steps is possible.
Blocked(i) == pc[i] \notin {"new", "L53", "done"} /\ ~ENABLED Acquire(i)

\* C13: hold-and-wait only in the fallback: a philosopher at the blocking
\* lock of line 65 holds no fork; a philosopher at line 67 with
\* triesLeft > 0 is never blocked (it only probes); and a philosopher that
\* is blocked while it holds a fork is at line 68 with triesLeft = 0.
HoldAndWaitOnlyInFallback ==
    \A i \in Phils :
        /\ pc[i] = "L65" => LockedBy(i) = {}
        /\ pc[i] = "L67" /\ triesLeft[i] > 0 => ~Blocked(i)
        /\ Blocked(i) /\ LockedBy(i) # {} => pc[i] = "L67" /\ triesLeft[i] = 0

\* A philosopher is blocked in the fallback, holding its left fork, while
\* another one with triesLeft > 0 holds a fork and is about to probe a
\* locked one.
HoldAndWait ==
    \E i, j \in Phils :
        /\ Blocked(i) /\ BlockedOnNeighbour(i)
        /\ pc[j] = "L67" /\ triesLeft[j] > 0 /\ ~MutexFree(forkRight[j])

\* C14: failed-probe step: a probe fails only on a locked fork with
\* triesLeft > 0; the step after it unlocks the first fork, exchanges the
\* two locals and decrements triesLeft by exactly 1, so that a retry starts
\* at line 65 with no fork held and with the fork whose probe failed as the
\* new first fork; and every acquisition starts at line 65 with no fork held,
\* forkLeft the own left fork, forkRight the own right fork and
\* triesLeft = 2, whatever the earlier cycles left.
FailedProbeStep ==
    [][\A i \in Phils :
        /\ pc[i] = "L67" /\ pc'[i] = "L72" =>
              /\ triesLeft[i] > 0
              /\ forks[forkRight[i]] \in Phils \ {i}
              /\ forks' = forks
        /\ pc[i] = "L72" /\ pc'[i] # "L72" =>
              /\ forks[forkLeft[i]] = i /\ forks'[forkLeft[i]] = NoOwner
              /\ forkLeft'[i] = forkRight[i] /\ forkRight'[i] = forkLeft[i]
              /\ triesLeft'[i] = triesLeft[i] - 1
        /\ pc[i] = "L72" /\ pc'[i] = "L65" =>
              /\ LockedBy(i)' = {}
              /\ forkLeft'[i] = forkRight[i]
              /\ forkLeft'[i] \in {LeftOf(i), RightOf(i)} \ {forkLeft[i]}
        /\ pc[i] = "L53" /\ pc'[i] = "L65" =>
              /\ LockedBy(i)' = {}
              /\ forkLeft'[i] = LeftOf(i) /\ forkRight'[i] = RightOf(i)
              /\ triesLeft'[i] = InitialTries
      ]_vars

\* A philosopher that has eaten in an earlier cycle, which it ended with the
\* two locals exchanged (swapped = 1), starts a new acquisition, while
\* another one starts a retry after a failed probe.
RestartAfterSwap ==
    \E i, j \in Phils :
        /\ pc[i] = "L65" /\ triesLeft[i] = InitialTries
        /\ platesCounter[i] >= 1 /\ swapped[i] = 1
        /\ pc[j] = "L65" /\ triesLeft[j] < InitialTries

\* The own two forks of philosopher i.
OwnForks(i) == {LeftOf(i), RightOf(i)}

\* C15: served-count accounting: platesCounter of a philosopher never
\* decreases; a step changes it exactly when the step gives the philosopher
\* its second fork (the entry into eating), and then by exactly 1, with
\* isEating set to 1 and both own forks locked by it after the step;
\* isEating becomes 1 in no other step.
ServedCountAccounting ==
    [][\A i \in Phils :
        /\ platesCounter'[i] >= platesCounter[i]
        /\ platesCounter'[i] # platesCounter[i] <=>
              LockedBy(i)' = OwnForks(i) /\ LockedBy(i) # OwnForks(i)
        /\ platesCounter'[i] # platesCounter[i] =>
              /\ platesCounter'[i] = platesCounter[i] + 1
              /\ pc[i] = "L67" /\ pc'[i] = "L88"
              /\ isEating'[i] = 1
        /\ isEating'[i] = 1 /\ isEating[i] # 1 =>
              platesCounter'[i] = platesCounter[i] + 1
        /\ pc[i] # "L88" /\ pc'[i] = "L88" =>
              platesCounter'[i] = platesCounter[i] + 1
      ]_vars

\* A philosopher eats its second plate, both own forks locked by it.
SecondPlate ==
    \E i \in Phils :
        /\ pc[i] = "L88" /\ platesCounter[i] = 2 /\ isEating[i] = 1
        /\ LockedBy(i) = OwnForks(i)

\* C16: single-writer frame: a step of the thread of philosopher i leaves
\* isEating and platesCounter of every other philosopher and the position of
\* every other thread as they are, changes no mutex but those of its own two
\* forks and only locks for itself or unlocks; a step of the reporting loop
\* of main (lines 151-162) changes no isEating, no platesCounter and no
\* mutex.
SingleWriterFrame ==
    [][/\ \A i \in Phils :
            pc[i] # "new" /\ pc'[i] # pc[i] =>
                /\ \A j \in Phils \ {i} :
                      /\ isEating'[j] = isEating[j]
                      /\ platesCounter'[j] = platesCounter[j]
                      /\ pc'[j] = pc[j]
                /\ \A f \in Forks :
                      forks'[f] # forks[f] =>
                          f \in OwnForks(i) /\ forks'[f] \in {i, NoOwner}
                /\ mainPc' = mainPc
       /\ mainPc \in {"L151", "L152"} /\ mainPc' # mainPc =>
            /\ isEating' = isEating
            /\ platesCounter' = platesCounter
            /\ forks' = forks
            /\ pc' = pc
      ]_vars

\* main is in its reporting loop, after the test of line 151, while one
\* philosopher eats and a neighbour of it holds a fork.
ReportWhileEating ==
    \E i \in Phils :
        /\ mainPc = "L152"
        /\ pc[i] = "L88" /\ isEating[i] = 1 /\ platesCounter[i] = 1
        /\ \E j \in Phils \ {i} : LockedBy(j) # {}

\* C17: the fallback order is the original order: a philosopher whose
\* triesLeft is 0, at the lock of line 65 or at the blocking lock of line 68,
\* has its own left fork as forkLeft and its own right fork as forkRight, and
\* at line 68 it is the left one that it holds.
FallbackOrderIsOriginal ==
    \A i \in Phils :
        pc[i] \in {"L65", "L67"} /\ triesLeft[i] = 0 =>
            /\ forkLeft[i] = LeftOf(i) /\ forkRight[i] = RightOf(i)
            /\ pc[i] = "L67" => LockedBy(i) = {LeftOf(i)}

\* A philosopher is in the fallback after two failed probes and two
\* exchanges: it holds its own left fork and is blocked on its own right
\* fork, which its neighbour holds.
FallbackLeftThenRight ==
    \E i \in Phils :
        /\ pc[i] = "L67" /\ triesLeft[i] = 0 /\ failed[i] = 0 /\ swapped[i] = 0
        /\ forks[LeftOf(i)] = i
        /\ forks[RightOf(i)] = RightOf(i)

\* C18: the indicator handle is initialised before use: a philosopher that
\* has entered the eating block, where line 84 reads phil->gpio, has had its
\* gpio field assigned by main.
GpioAssignedBeforeUse ==
    \A i \in Phils : pc[i] \in {"L88", "L89", "L90"} => gpio[i] # Unset

\* C19: the fork label matches the fork taken: at the log points of lines 66
\* and 69 (after the first fork is locked, until the two locals are exchanged
\* or the second fork is unlocked) swapped is 1 exactly when the local
\* forkLeft is the philosopher's own right fork.
LabelMatchesFork ==
    \A i \in Phils :
        pc[i] \in {"L67", "L72", "L88"} =>
            (swapped[i] = 1 <=> forkLeft[i] = RightOf(i))
====
